---- MODULE Spec2Model ----
(***************************************************************************)
(* Model of the camp navigator core: the proximity ranker of src/ranker.py *)
(* (filter_candidates, score_candidate, rank_meetings) and the             *)
(* normalization pass of scripts/parse_websoc_json.py (normalize_days,     *)
(* parse_location, parse_meeting_time, main).                              *)
(*                                                                         *)
(* Strings are sequences of one-character strings, so that substring       *)
(* tests, strip, replace and the pattern match are computed, not assumed.  *)
(* Floats are exact rationals <<numerator, denominator>>, denominator > 0. *)
(***************************************************************************)
EXTENDS Integers, Sequences, FiniteSets, TLC

VARIABLES
    pc,               \* position of the caller: "call" before, "done" after
    meetings,         \* rank_meetings argument: List[Meeting]
    buildings,        \* rank_meetings argument: Dict[str, Building]
    user_latlon,      \* rank_meetings argument
    day_token,        \* rank_meetings argument
    now_min,          \* rank_meetings argument
    cfg,              \* RankConfig
    top_k,            \* rank_meetings argument
    include_ongoing,  \* rank_meetings argument
    candidates,       \* local of rank_meetings: result of filter_candidates
    ranked,           \* value returned by rank_meetings
    min_until,        \* score_candidate argument
    dist_m,           \* score_candidate argument
    scored,           \* value returned by score_candidate
    time_raw,         \* parse_meeting_time argument
    time_parsed,      \* value returned by parse_meeting_time
    data,             \* main: the loaded JSON root
    rows,             \* main: the rows collected for the meeting table
    skipped,          \* main: the skip counters
    total_input_entries,  \* main: len(data)
    days_in,          \* normalize_days argument
    days_norm,        \* value returned by normalize_days
    days_twice,       \* value returned by normalize_days on its own result
    occurs            \* value returned by occurs_today, for each day token

vars == <<pc, meetings, buildings, user_latlon, day_token, now_min, cfg, top_k,
          include_ongoing, candidates, ranked, min_until, dist_m, scored,
          time_raw, time_parsed, data, rows, skipped, total_input_entries,
          days_in, days_norm, days_twice, occurs>>

rankVars == <<meetings, buildings, user_latlon, day_token, now_min, top_k,
              include_ongoing, candidates, ranked>>
scoreVars == <<min_until, dist_m, scored>>
timeVars == <<time_raw, time_parsed>>
mainVars == <<data, rows, skipped, total_input_entries>>
daysVars == <<days_in, days_norm, days_twice, occurs>>

\* Python's None, and the value of a variable a specification does not use.
None == "None"

(***************************************************************************)
(* Exact rational arithmetic standing in for Python floats.                *)
(***************************************************************************)
\* Fractions are kept in lowest terms, which keeps the products within TLC's integers.
RECURSIVE Gcd(_, _)
Gcd(a, b) == IF b = 0 THEN a ELSE Gcd(b, a % b)
Rat(n, d) ==
    LET g == Gcd(IF n < 0 THEN -n ELSE n, IF d < 0 THEN -d ELSE d)
        sgn == IF d < 0 THEN -1 ELSE 1
    IN <<sgn * (n \div g), sgn * (d \div g)>>
Zero == Rat(0, 1)
One == Rat(1, 1)
RAdd(a, b) == Rat(a[1] * b[2] + b[1] * a[2], a[2] * b[2])
RSub(a, b) == Rat(a[1] * b[2] - b[1] * a[2], a[2] * b[2])
RMul(a, b) == Rat(a[1] * b[1], a[2] * b[2])
RLt(a, b) == a[1] * b[2] < b[1] * a[2]
RLeq(a, b) == a[1] * b[2] <= b[1] * a[2]
REq(a, b) == a[1] * b[2] = b[1] * a[2]
Abs(x) == IF x < 0 THEN -x ELSE x

(***************************************************************************)
(* Bounds of the model.                                                    *)
(***************************************************************************)
MaxMeetings == 2

(***************************************************************************)
(* Strings as sequences of characters.                                     *)
(***************************************************************************)
\* Python's `sub in s` on strings: sub occurs as a contiguous slice of s.
Contains(sub, s) ==
    \E i \in 0..(Len(s) - Len(sub)) : SubSeq(s, i + 1, i + Len(sub)) = sub

(***************************************************************************)
(* Inputs of the ranker.  Coordinates are metres along one meridian, so    *)
(* that the great-circle distance of two points is the difference of their *)
(* first coordinates; every point has the second coordinate 0.             *)
(***************************************************************************)
DayStrings == { <<"W">>, <<"T", "u", "T", "h">> }
DayTokens == { <<"W">>, <<"T", "u">> }
\* (start_min, end_min) of a Meeting: the parser only emits start < end.
Slots == { <<780, 830>>, <<760, 850>> }
BuildingCodes == {"HIB", "DBH", "ELH"}
MeetingChoices ==
    { [days |-> d, start_min |-> t[1], end_min |-> t[2], building_code |-> b] :
        d \in DayStrings, t \in Slots, b \in BuildingCodes }
MeetingLists == UNION { [1..n -> MeetingChoices] : n \in 0..MaxMeetings }
\* The Building lookup: ELH has no entry.
BuildingTable ==
    [c \in {"HIB", "DBH"} |-> [lat |-> IF c = "HIB" THEN 0 ELSE 600, lon |-> 0]]
NowChoices == {700, 770, 790, 840}
TimeWindows == {0, 60}
MaxDistances == {0, 1200}
Weights == { <<Rat(6, 10), Rat(4, 10)>>, <<Rat(1, 1), Rat(1, 1)>> }
RankConfigs ==
    { [time_window_min |-> tw, max_distance_m |-> md,
       w_time |-> w[1], w_dist |-> w[2]] :
        tw \in TimeWindows, md \in MaxDistances, w \in Weights }
TopKs == (-1)..MaxMeetings

(***************************************************************************)
(* src/ranker.py                                                           *)
(***************************************************************************)
haversine_m(lat1, lon1, lat2, lon2) == Abs(lat2 - lat1)

\* Mutant: only the first letter of the day token is looked for.
occurs_today_first_letter(meeting, tok) == Contains(<<tok[1]>>, meeting.days)

occurs_today(meeting, tok) == Contains(tok, meeting.days)

\* Mutant: minutes until start computed with the operands swapped.
minutes_until_start_swapped(meeting, now) == now - meeting.start_min

minutes_until_start(meeting, now) == meeting.start_min - now

\* Mutant: an already started meeting is kept without asking whether it has ended.
TimeWindowKeepsEnded(m, now, c, inc) ==
    LET mins_until == m.start_min - now IN
    /\ (mins_until < 0) => inc
    /\ ~(mins_until >= 0 /\ mins_until > c.time_window_min)

\* Lines 82-92 of filter_candidates: TRUE when neither `continue` is taken.
TimeWindowKeeps(m, now, c, inc) ==
    LET mins_until == minutes_until_start(m, now) IN
    /\ (mins_until < 0) => (inc /\ now < m.end_min)
    /\ ~(mins_until >= 0 /\ mins_until > c.time_window_min)

\* Mutant: the distance filter never rejects.
DistanceKeepsAll(dist, c) == TRUE

\* Lines 95-97 of filter_candidates: TRUE when the distance `continue` is not taken.
DistanceKeeps(dist, c) == ~(dist > c.max_distance_m)

\* One iteration of the loop of filter_candidates: TRUE when m is appended.
FilterKeeps(m, bs, ull, tok, now, c, inc) ==
    /\ occurs_today(m, tok)
    /\ m.building_code \in DOMAIN bs
    /\ TimeWindowKeeps(m, now, c, inc)
    /\ DistanceKeeps(haversine_m(ull[1], ull[2], bs[m.building_code].lat,
                                 bs[m.building_code].lon), c)

\* The tuple (m, mins_until, dist) appended for the meeting at position i; the
\* Meeting reference is the position of the object in the input list.
CandidateOf(i, ms, bs, ull, now) ==
    [meeting |-> i,
     mins_until |-> minutes_until_start(ms[i], now),
     dist |-> haversine_m(ull[1], ull[2], bs[ms[i].building_code].lat,
                          bs[ms[i].building_code].lon)]

\* Mutant: the loop ends at the first meeting that is not kept.
RECURSIVE FilterFromBreak(_, _, _, _, _, _, _, _)
FilterFromBreak(i, ms, bs, ull, tok, now, c, inc) ==
    IF i > Len(ms) THEN <<>>
    ELSE IF FilterKeeps(ms[i], bs, ull, tok, now, c, inc)
         THEN <<CandidateOf(i, ms, bs, ull, now)>>
              \o FilterFromBreak(i + 1, ms, bs, ull, tok, now, c, inc)
         ELSE <<>>

RECURSIVE FilterFrom(_, _, _, _, _, _, _, _)
FilterFrom(i, ms, bs, ull, tok, now, c, inc) ==
    IF i > Len(ms) THEN <<>>
    ELSE IF FilterKeeps(ms[i], bs, ull, tok, now, c, inc)
         THEN <<CandidateOf(i, ms, bs, ull, now)>>
              \o FilterFrom(i + 1, ms, bs, ull, tok, now, c, inc)
         ELSE FilterFrom(i + 1, ms, bs, ull, tok, now, c, inc)

filter_candidates(ms, bs, ull, tok, now, c, inc) ==
    FilterFrom(1, ms, bs, ull, tok, now, c, inc)

clamp01(x) == IF RLt(x, Zero) THEN Zero ELSE IF RLt(One, x) THEN One ELSE x

\* Mutant: the time score is not clamped.
TimeScoreUnclamped(mu, c) ==
    IF c.time_window_min > 0
    THEN RSub(One, Rat(mu, c.time_window_min))
    ELSE IF mu <= 0 THEN One ELSE Zero

\* Lines 115-125 of score_candidate.
TimeScore(mu, c) ==
    clamp01(IF c.time_window_min > 0
            THEN RSub(One, Rat(mu, c.time_window_min))
            ELSE IF mu <= 0 THEN One ELSE Zero)

\* Mutant: the distance score is not clamped.
DistScoreUnclamped(d, c) ==
    IF c.max_distance_m > 0
    THEN RSub(One, Rat(d, c.max_distance_m))
    ELSE IF d = 0 THEN One ELSE Zero

\* Lines 129-139 of score_candidate.
DistScore(d, c) ==
    clamp01(IF c.max_distance_m > 0
            THEN RSub(One, Rat(d, c.max_distance_m))
            ELSE IF d = 0 THEN One ELSE Zero)

\* Mutant: the final score is clamped to [0,1] as well.
score_candidate_clamped(mu, d, c) ==
    LET t == TimeScore(mu, c)
        ds == DistScore(d, c)
    IN [final |-> clamp01(RAdd(RMul(c.w_time, t), RMul(c.w_dist, ds))),
        time_score |-> t,
        dist_score |-> ds]

score_candidate(mu, d, c) ==
    LET t == TimeScore(mu, c)
        ds == DistScore(d, c)
    IN [final |-> RAdd(RMul(c.w_time, t), RMul(c.w_dist, ds)),
        time_score |-> t,
        dist_score |-> ds]

\* Lines 171-182 of rank_meetings: the RankedResult of one candidate.
RankedResult(cand, c) ==
    LET s == score_candidate(cand.mins_until, cand.dist, c) IN
    [meeting |-> cand.meeting,
     score |-> s.final,
     minutes_until_start |-> cand.mins_until,
     distance_m |-> cand.dist,
     time_score |-> s.time_score,
     dist_score |-> s.dist_score]

\* list.sort(key=score, reverse=True): a stable sort, equal keys keep their order.
\* r goes behind every element whose score is >= its own.
\* Mutant: r goes in front of the elements of equal score (an unstable sort).
RECURSIVE InsertDescUnstable(_, _)
InsertDescUnstable(sorted, r) ==
    IF sorted = <<>> THEN <<r>>
    ELSE IF RLeq(Head(sorted).score, r.score) THEN <<r>> \o sorted
    ELSE <<Head(sorted)>> \o InsertDescUnstable(Tail(sorted), r)

RECURSIVE InsertDesc(_, _)
InsertDesc(sorted, r) ==
    IF sorted = <<>> THEN <<r>>
    ELSE IF RLt(Head(sorted).score, r.score) THEN <<r>> \o sorted
    ELSE <<Head(sorted)>> \o InsertDesc(Tail(sorted), r)

RECURSIVE SortDesc(_)
SortDesc(rs) ==
    IF rs = <<>> THEN <<>>
    ELSE InsertDesc(SortDesc(SubSeq(rs, 1, Len(rs) - 1)), rs[Len(rs)])

\* Mutant: the truncation is left out.
SliceAll(seq, k) == seq

\* Python's seq[:k]: the first k elements, and for k < 0 all but the last -k.
SliceTo(seq, k) ==
    IF k >= 0 THEN SubSeq(seq, 1, IF k < Len(seq) THEN k ELSE Len(seq))
    ELSE SubSeq(seq, 1, Len(seq) + k)

rank_meetings(cands, c, k) ==
    SliceTo(SortDesc([i \in 1..Len(cands) |-> RankedResult(cands[i], c)]), k)

(***************************************************************************)
(* Specification of one call of rank_meetings.                             *)
(***************************************************************************)
Init ==
    /\ pc = "call"
    /\ meetings \in MeetingLists
    /\ buildings = BuildingTable
    /\ user_latlon = <<0, 0>>
    /\ day_token \in DayTokens
    /\ now_min \in NowChoices
    /\ cfg \in RankConfigs
    /\ top_k \in TopKs
    /\ include_ongoing \in BOOLEAN
    /\ candidates = None
    /\ ranked = None
    /\ min_until = None /\ dist_m = None /\ scored = None
    /\ time_raw = None /\ time_parsed = None
    /\ data = None /\ rows = None /\ skipped = None /\ total_input_entries = None
    /\ days_in = None /\ days_norm = None /\ days_twice = None /\ occurs = None

RankMeetings ==
    /\ pc = "call"
    /\ candidates' = filter_candidates(meetings, buildings, user_latlon,
                                       day_token, now_min, cfg, include_ongoing)
    /\ ranked' = rank_meetings(candidates', cfg, top_k)
    /\ pc' = "done"
    /\ UNCHANGED <<daysVars, meetings, buildings, user_latlon, day_token, now_min, cfg,
                   top_k, include_ongoing, scoreVars, timeVars, mainVars>>

Next == RankMeetings

Spec == Init /\ [][Next]_vars

(***************************************************************************)
(* scripts/parse_websoc_json.py: the time-range parser.                    *)
(* A raw string is a sequence of characters; the characters EN_DASH and    *)
(* EM_DASH stand for the two non-ASCII dashes of TIME_RANGE_RE.            *)
(***************************************************************************)
MaxHour == 13

\* parse_meeting_time's None.
NoValue == <<>>
\* The exception time_to_minutes raises, a value no clock time takes.
ValueError == -1

Digits == <<"0", "1", "2", "3", "4", "5", "6", "7", "8", "9">>
IsDigit(c) == \E d \in 1..10 : Digits[d] = c
DigitVal(c) == (CHOOSE d \in 1..10 : Digits[d] = c) - 1
IsSpace(c) == c = " "
Dashes == {"-", "EN_DASH", "EM_DASH"}

\* str.lower() and str.upper() on the letters that occur in the inputs.
LowerChar(c) ==
    CASE c = "A" -> "a" [] c = "P" -> "p" [] c = "M" -> "m"
      [] c = "T" -> "t" [] c = "B" -> "b" [] OTHER -> c
UpperChar(c) ==
    CASE c = "a" -> "A" [] c = "p" -> "P" [] c = "m" -> "M"
      [] c = "t" -> "T" [] c = "b" -> "B" [] OTHER -> c
Lower(s) == [i \in 1..Len(s) |-> LowerChar(s[i])]
Upper(s) == [i \in 1..Len(s) |-> UpperChar(s[i])]

\* str.strip(): leading and trailing whitespace removed.
RECURSIVE LStrip(_)
LStrip(s) == IF s # <<>> /\ IsSpace(Head(s)) THEN LStrip(Tail(s)) ELSE s
RECURSIVE RStrip(_)
RStrip(s) ==
    IF s # <<>> /\ IsSpace(s[Len(s)]) THEN RStrip(SubSeq(s, 1, Len(s) - 1)) ELSE s
Strip(s) == RStrip(LStrip(s))

\* s.replace(" ", "")
RemoveSpaces(s) == SelectSeq(s, LAMBDA c : c # " ")

\* int() of a string of digits.
RECURSIVE ParseInt(_)
ParseInt(s) ==
    IF s = <<>> THEN 0
    ELSE 10 * ParseInt(SubSeq(s, 1, Len(s) - 1)) + DigitVal(s[Len(s)])

\* The character at position i, "" past the end.
At(s, i) == IF i \in 1..Len(s) THEN s[i] ELSE ""

\* \s* from position i: the position of the first character that is no whitespace.
RECURSIVE SkipSpace(_, _)
SkipSpace(s, i) == IF IsSpace(At(s, i)) THEN SkipSpace(s, i + 1) ELSE i

\* \d{1,2}:\d{2} at position i: the number of characters matched, 0 for no match.
MatchClock(s, i) ==
    LET hd == IF IsDigit(At(s, i)) /\ IsDigit(At(s, i + 1)) /\ At(s, i + 2) = ":" THEN 2
              ELSE IF IsDigit(At(s, i)) /\ At(s, i + 1) = ":" THEN 1
              ELSE 0
    IN IF hd > 0 /\ IsDigit(At(s, i + hd + 1)) /\ IsDigit(At(s, i + hd + 2))
       THEN hd + 3 ELSE 0

\* ([ap]m?|[ap])? at position i, ignoring case: the number of characters matched.
MatchSuffix(s, i) ==
    IF LowerChar(At(s, i)) \in {"a", "p"}
    THEN (IF LowerChar(At(s, i + 1)) = "m" THEN 2 ELSE 1)
    ELSE 0

\* (\d{1,2}:\d{2})([ap]m?|[ap])?\s* from position b, the clock being n characters
\* long: where the group starts, the lengths of clock and suffix, where the match stops.
SuffixGroup(s, b, n, x) ==
    [from |-> b, clock |-> n, suffix |-> x, to |-> SkipSpace(s, b + n + x)]
ClockGroup(s, b, n) == SuffixGroup(s, b, n, MatchSuffix(s, b + n))
TimeGroup(s, b) == ClockGroup(s, b, MatchClock(s, b))

\* The groups of a match whose two halves are g1 and g2, with the dash between them.
RangeGroups(s, g1, g2) ==
    IF g1.clock > 0 /\ At(s, g1.to) \in Dashes /\ g2.clock > 0 /\ g2.to = Len(s) + 1
    THEN [matched |-> TRUE,
          start |-> SubSeq(s, g1.from, g1.from + g1.clock - 1),
          start_suffix |-> SubSeq(s, g1.from + g1.clock,
                                  g1.from + g1.clock + g1.suffix - 1),
          end |-> SubSeq(s, g2.from, g2.from + g2.clock - 1),
          end_suffix |-> SubSeq(s, g2.from + g2.clock,
                                g2.from + g2.clock + g2.suffix - 1)]
    ELSE [matched |-> FALSE]
RangeAfter(s, g1) == RangeGroups(s, g1, TimeGroup(s, SkipSpace(s, g1.to + 1)))

\* TIME_RANGE_RE.match(s): the four groups, or matched = FALSE.
TIME_RANGE_RE(s) == RangeAfter(s, TimeGroup(s, SkipSpace(s, 1)))

\* hhmm.split(":"): the position of the colon.
ColonAt(hhmm) == CHOOSE i \in 1..Len(hhmm) : hhmm[i] = ":"
HourOf(hhmm) == ParseInt(SubSeq(hhmm, 1, ColonAt(hhmm) - 1))
MinuteOf(hhmm) == ParseInt(SubSeq(hhmm, ColonAt(hhmm) + 1, Len(hhmm)))

time_to_minutes(hhmm, ampm) ==
    LET h == HourOf(hhmm)
        m == MinuteOf(hhmm)
        a == Lower(ampm)
    IN IF a \in { <<"a">>, <<"a", "m">> }
       THEN (IF h = 12 THEN 0 ELSE h) * 60 + m
       ELSE IF a \in { <<"p">>, <<"p", "m">> }
       THEN (IF h # 12 THEN h + 12 ELSE h) * 60 + m
       ELSE ValueError

AM == <<"a", "m">>
PM == <<"p", "m">>

\* norm_suf: "am", "pm" or None (the empty string stands for None: both are falsy).
norm_suf(x) ==
    IF x = <<>> THEN <<>>
    ELSE IF Lower(x) \in { <<"a">>, <<"a", "m">> } THEN AM
    ELSE IF Lower(x) \in { <<"p">>, <<"p", "m">> } THEN PM
    ELSE <<>>

\* Mutant: the reading farther from the marked end replaces the best one.
ChooseStepFarthest(best, unmarked_hhmm, marked_min, candidate) ==
    LET mmin == time_to_minutes(unmarked_hhmm, candidate) IN
    IF mmin = ValueError THEN best
    ELSE IF best = <<>> \/ Abs(mmin - marked_min) > best[1]
         THEN <<Abs(mmin - marked_min), mmin, candidate>>
         ELSE best

\* One round of the loop of choose_closest: best is <<>> or <<delta, mmin, candidate>>.
ChooseStep(best, unmarked_hhmm, marked_min, candidate) ==
    LET mmin == time_to_minutes(unmarked_hhmm, candidate) IN
    IF mmin = ValueError THEN best
    ELSE IF best = <<>> \/ Abs(mmin - marked_min) < best[1]
         THEN <<Abs(mmin - marked_min), mmin, candidate>>
         ELSE best

\* choose_closest: <<mmin, candidate>>, or <<>> for None.
choose_closest(unmarked_hhmm, marked_min) ==
    LET best == ChooseStep(ChooseStep(<<>>, unmarked_hhmm, marked_min, AM),
                           unmarked_hhmm, marked_min, PM)
    IN IF best = <<>> THEN <<>> ELSE <<best[2], best[3]>>

default_ampm_for_hour(h) ==
    IF 8 <= h /\ h <= 11 THEN AM
    ELSE IF h = 12 \/ (1 <= h /\ h <= 7) THEN PM
    ELSE AM

\* Lines 279-288: the combinations kept, in the order the two loops append them.
FallbackCandidates(start_hhmm, end_hhmm) ==
    LET combos == << <<AM, AM>>, <<AM, PM>>, <<PM, AM>>, <<PM, PM>> >>
        pair(c) == << time_to_minutes(start_hhmm, c[1]),
                      time_to_minutes(end_hhmm, c[2]) >>
        all == [i \in 1..4 |-> pair(combos[i])]
    IN SelectSeq(all, LAMBDA t : t[2] > t[1] /\ 0 < t[2] - t[1]
                                 /\ t[2] - t[1] <= 12 * 60)

\* Mutant: t goes in front of the pairs of equal duration (an unstable sort).
RECURSIVE InsertByDurationUnstable(_, _)
InsertByDurationUnstable(sorted, t) ==
    IF sorted = <<>> THEN <<t>>
    ELSE IF t[2] - t[1] <= Head(sorted)[2] - Head(sorted)[1] THEN <<t>> \o sorted
    ELSE <<Head(sorted)>> \o InsertByDurationUnstable(Tail(sorted), t)

\* candidates.sort(key=duration): stable, ascending.
RECURSIVE InsertByDuration(_, _)
InsertByDuration(sorted, t) ==
    IF sorted = <<>> THEN <<t>>
    ELSE IF t[2] - t[1] < Head(sorted)[2] - Head(sorted)[1] THEN <<t>> \o sorted
    ELSE <<Head(sorted)>> \o InsertByDuration(Tail(sorted), t)

RECURSIVE SortByDuration(_)
SortByDuration(ts) ==
    IF ts = <<>> THEN <<>>
    ELSE InsertByDuration(SortByDuration(SubSeq(ts, 1, Len(ts) - 1)), ts[Len(ts)])

\* Mutant: the two converted ends are returned without comparing them.
BothMarkedUnordered(start_hhmm, start_suf, end_hhmm, end_suf) ==
    LET start_min == time_to_minutes(start_hhmm, start_suf)
        end_min == time_to_minutes(end_hhmm, end_suf)
    IN IF start_min = ValueError \/ end_min = ValueError THEN NoValue
       ELSE <<start_min, end_min>>

\* Case 1 (lines 223-231): both suffixes present.
BothMarked(start_hhmm, start_suf, end_hhmm, end_suf) ==
    LET start_min == time_to_minutes(start_hhmm, start_suf)
        end_min == time_to_minutes(end_hhmm, end_suf)
    IN IF start_min = ValueError \/ end_min = ValueError THEN NoValue
       ELSE IF end_min <= start_min THEN NoValue
       ELSE <<start_min, end_min>>

\* Case 2, first half (lines 234-245): only the end is marked.
EndMarked(start_hhmm, end_hhmm, end_suf) ==
    LET end_min == time_to_minutes(end_hhmm, end_suf)
        choice == choose_closest(start_hhmm, end_min)
    IN IF end_min = ValueError THEN NoValue
       ELSE IF choice = <<>> THEN NoValue
       ELSE IF choice[1] >= end_min THEN NoValue
       ELSE <<choice[1], end_min>>

\* Case 2, second half (lines 247-258): only the start is marked.
StartMarked(start_hhmm, start_suf, end_hhmm) ==
    LET start_min == time_to_minutes(start_hhmm, start_suf)
        choice == choose_closest(end_hhmm, start_min)
    IN IF start_min = ValueError THEN NoValue
       ELSE IF choice = <<>> THEN NoValue
       ELSE IF choice[1] <= start_min THEN NoValue
       ELSE <<start_min, choice[1]>>

\* Case 3 (lines 260-294): no suffix at all.
Unmarked(start_hhmm, end_hhmm) ==
    LET start_min == time_to_minutes(start_hhmm, default_ampm_for_hour(HourOf(start_hhmm)))
        end_min == time_to_minutes(end_hhmm, default_ampm_for_hour(HourOf(end_hhmm)))
        cands == SortByDuration(FallbackCandidates(start_hhmm, end_hhmm))
    IN IF start_min = ValueError \/ end_min = ValueError THEN NoValue
       ELSE IF end_min > start_min THEN <<start_min, end_min>>
       ELSE IF cands # <<>> THEN cands[1]
       ELSE NoValue

\* Lines 174-178: the pattern is tried on the string without blanks, then as it is.
FirstMatch(m, s) == IF m.matched THEN m ELSE TIME_RANGE_RE(s)
MatchRaw(s) == FirstMatch(TIME_RANGE_RE(RemoveSpaces(s)), s)

\* Lines 222-294: the three cases, on the groups and the normalised suffixes.
ParseGroups(start_hhmm, start_suf, end_hhmm, end_suf) ==
    IF start_suf # <<>> /\ end_suf # <<>>
    THEN BothMarked(start_hhmm, start_suf, end_hhmm, end_suf)
    ELSE IF end_suf # <<>> THEN EndMarked(start_hhmm, end_hhmm, end_suf)
    ELSE IF start_suf # <<>> THEN StartMarked(start_hhmm, start_suf, end_hhmm)
    ELSE Unmarked(start_hhmm, end_hhmm)

\* Lines 177-196: no match gives None, a match gives its groups to the cases.
ParseMatch(m) ==
    IF ~m.matched THEN NoValue
    ELSE ParseGroups(m.start, norm_suf(m.start_suffix), m.end, norm_suf(m.end_suffix))

\* Lines 170-176: the stripped string s.
ParseStripped(s) ==
    IF s = <<>> \/ Upper(s) = <<"T", "B", "A">> THEN NoValue
    ELSE ParseMatch(MatchRaw(s))

parse_meeting_time(raw) == IF raw = <<>> THEN NoValue ELSE ParseStripped(Strip(raw))

(***************************************************************************)
(* Inputs of the parser: every range H:MM<suffix><dash>H:MM<suffix> with    *)
(* the hours 0..MaxHour, and strings the pattern does not accept.          *)
(***************************************************************************)
Hours == 0..MaxHour
Minutes == {0, 50}
Suffixes == { <<>>, <<"a">>, <<"a", "m">>, <<"p">>, <<"P", "M">> }
Separators == { <<"-">>, <<"-", " ">> }
TwoDigits(n) == << Digits[(n \div 10) + 1], Digits[(n % 10) + 1] >>
HourText(h) == IF h < 10 THEN << Digits[h + 1] >> ELSE TwoDigits(h)
ClockText(h, m) == HourText(h) \o <<":">> \o TwoDigits(m)
RangeText(sh, sm, ss, sep, eh, em, es) ==
    ClockText(sh, sm) \o ss \o sep \o ClockText(eh, em) \o es
Unparsable ==
    { <<>>, <<" ">>, <<"T", "B", "A">>, <<"t", "b", "a">>,
      <<"2", ":", "0", "0">>, <<"2", ":", "0", "0", "-", "4", ":", "5", "p">>,
      <<"2", ":", "0", "0", "p", "m", "m", "-", "4", ":", "5", "0">> }
TimeStrings ==
    { RangeText(sh, sm, ss, sep, eh, em, es) :
        sh \in Hours, sm \in Minutes, ss \in Suffixes, sep \in Separators,
        eh \in Hours, em \in Minutes, es \in Suffixes }
    \cup Unparsable

InitTime ==
    /\ pc = "call"
    /\ time_raw \in TimeStrings
    /\ time_parsed = None
    /\ meetings = None /\ buildings = None /\ user_latlon = None
    /\ day_token = None /\ now_min = None /\ cfg = None /\ top_k = None
    /\ include_ongoing = None /\ candidates = None /\ ranked = None
    /\ min_until = None /\ dist_m = None /\ scored = None
    /\ data = None /\ rows = None /\ skipped = None /\ total_input_entries = None
    /\ days_in = None /\ days_norm = None /\ days_twice = None /\ occurs = None

ParseMeetingTime ==
    /\ pc = "call"
    /\ time_parsed' = parse_meeting_time(time_raw)
    /\ pc' = "done"
    /\ UNCHANGED <<daysVars, time_raw, rankVars, cfg, scoreVars, mainVars>>

NextTime == ParseMeetingTime

SpecTime == InitTime /\ [][NextTime]_vars

(***************************************************************************)
(* scripts/parse_websoc_json.py: the normalization pass (main) with        *)
(* normalize_days and parse_location.                                      *)
(***************************************************************************)
MaxEntries == 2

\* "".join(tokens)
RECURSIVE Join(_)
Join(tokens) == IF tokens = <<>> THEN <<>> ELSE Head(tokens) \o Join(Tail(tokens))

\* Lines 61-76 of normalize_days: the tokens found from position i on.
RECURSIVE Tokens(_, _)
Tokens(s, i) ==
    IF i > Len(s) THEN <<>>
    ELSE IF << At(s, i), At(s, i + 1) >>
              \in { <<"T", "u">>, <<"T", "h">>, <<"S", "a">>, <<"S", "u">> }
         THEN << SubSeq(s, i, i + 1) >> \o Tokens(s, i + 2)
    ELSE IF s[i] \in {"M", "W", "F"} THEN << <<s[i]>> >> \o Tokens(s, i + 1)
    ELSE IF s[i] = "T" THEN << <<"T", "u">> >> \o Tokens(s, i + 1)
    ELSE IF s[i] = "R" THEN << <<"T", "h">> >> \o Tokens(s, i + 1)
    ELSE Tokens(s, i + 1)

\* Mutant: duplicates removed, the last occurrence kept.
RECURSIVE DedupKeepLast(_)
DedupKeepLast(tokens) ==
    IF tokens = <<>> THEN <<>>
    ELSE IF \E k \in 2..Len(tokens) : tokens[k] = Head(tokens)
         THEN DedupKeepLast(Tail(tokens))
         ELSE <<Head(tokens)>> \o DedupKeepLast(Tail(tokens))

\* Lines 79-84 of normalize_days: duplicates removed, the first occurrence kept.
RECURSIVE Dedup(_)
Dedup(tokens) ==
    IF tokens = <<>> THEN <<>>
    ELSE LET front == Dedup(SubSeq(tokens, 1, Len(tokens) - 1))
             t == tokens[Len(tokens)]
         IN IF \E k \in 1..Len(front) : front[k] = t THEN front ELSE Append(front, t)

\* Mutant: the compact encoding "TR" is answered with "TTh".
normalize_days_TR(days_raw) ==
    LET s == Strip(days_raw) IN
    IF days_raw = <<>> THEN <<>>
    ELSE IF s = <<"T", "R">> THEN <<"T", "T", "h">>
    ELSE IF s = <<"T", "T", "h">> THEN <<"T", "u", "T", "h">>
    ELSE Join(Dedup(Tokens(s, 1)))

normalize_days(days_raw) ==
    LET s == Strip(days_raw) IN
    IF days_raw = <<>> THEN <<>>
    ELSE IF s = <<"T", "R">> THEN <<"T", "u", "T", "h">>
    ELSE IF s = <<"T", "T", "h">> THEN <<"T", "u", "T", "h">>
    ELSE Join(Dedup(Tokens(s, 1)))

\* The sentinels of parse_location and of main (tba_like), in upper case.
TbaLike ==
    { <<"T", "B", "A">>, <<"O", "N", "L", "I", "N", "E">>,
      <<"R", "E", "M", "O", "T", "E">>, <<"W", "E", "B">>, <<"A", "R", "R">> }

\* str.split(): the maximal runs of characters that are no whitespace.  parts are
\* the runs completed before position i, cur is the run being read.
RECURSIVE SplitFrom(_, _, _, _)
SplitFrom(s, i, parts, cur) ==
    IF i > Len(s) THEN (IF cur = <<>> THEN parts ELSE Append(parts, cur))
    ELSE IF IsSpace(s[i])
         THEN SplitFrom(s, i + 1, IF cur = <<>> THEN parts ELSE Append(parts, cur), <<>>)
         ELSE SplitFrom(s, i + 1, parts, Append(cur, s[i]))
Split(s) == SplitFrom(s, 1, <<>>, <<>>)

\* " ".join(parts)
RECURSIVE JoinBlank(_)
JoinBlank(parts) ==
    IF parts = <<>> THEN <<>>
    ELSE IF Len(parts) = 1 THEN parts[1]
    ELSE parts[1] \o <<" ">> \o JoinBlank(Tail(parts))

\* parse_location: <<building, room>>
parse_location(loc_raw) ==
    LET s == Strip(loc_raw)
        parts == Split(s)
    IN IF loc_raw = <<>> THEN << <<>>, <<>> >>
       ELSE IF Upper(s) \in TbaLike THEN << <<>>, <<>> >>
       ELSE IF Len(parts) = 1 THEN << parts[1], <<>> >>
       ELSE << parts[1], JoinBlank(Tail(parts)) >>

\* str(obj.get(key) or "").strip(): a missing, null or empty field is the empty string.
Field(obj, key) == Strip(obj[key])

\* course_code.replace(' ', '_')
Underscored(s) == [i \in 1..Len(s) |-> IF s[i] = " " THEN "_" ELSE s[i]]

\* Lines 378-382 of main.
MeetingId(course_code, section_code, section_type, section_num) ==
    Underscored(course_code) \o <<"-">> \o section_code
    \o (IF section_type # <<>> \/ section_num # <<>>
        THEN <<"-">> \o section_type \o <<"-">> \o section_num
        ELSE <<>>)

\* One round of the loop of main (lines 332-396): what becomes of the entry.
\* outcome is "row", the name of a skip counter, or "not_a_dict" (the entry is passed
\* over without a count).  title, dept and term are copied through and left out.
ProcessEntry(obj) ==
    IF ~obj.is_dict THEN [outcome |-> "not_a_dict"]
    ELSE
    LET course_code == Field(obj, "courseCode")
        days_raw == Field(obj, "days")
        time_raw_ == Field(obj, "meetingTime")
        loc_raw == Field(obj, "location")
        days == normalize_days(days_raw)
        tp == parse_meeting_time(time_raw_)
        loc == parse_location(loc_raw)
    IN IF course_code = <<>> THEN [outcome |-> "missing_course"]
       ELSE IF \/ Upper(Strip(days_raw)) \in TbaLike
               \/ Upper(Strip(time_raw_)) \in TbaLike
               \/ Upper(Strip(loc_raw)) \in TbaLike
            THEN [outcome |-> "tba_or_online"]
       ELSE IF days = <<>> THEN [outcome |-> "missing_days"]
       ELSE IF tp = NoValue THEN [outcome |-> "bad_time"]
       ELSE IF loc[1] = <<>> THEN [outcome |-> "bad_location"]
       ELSE [outcome |-> "row",
             row |-> [meeting_id |-> MeetingId(course_code, Field(obj, "sectionCode"),
                                               Field(obj, "sectionType"),
                                               Field(obj, "sectionNum")),
                      course_id |-> course_code,
                      days |-> days,
                      start_min |-> tp[1],
                      end_min |-> tp[2],
                      building_code |-> loc[1],
                      room |-> loc[2]]]

SkipCounters == {"missing_days", "bad_time", "bad_location", "tba_or_online", "missing_course"}

\* Lines 348-396 for one entry: the rows and counters `before` it, updated.
Account(before, r) ==
    IF r.outcome = "row" THEN [before EXCEPT !.rows = Append(@, r.row)]
    ELSE IF r.outcome \in SkipCounters
         THEN [before EXCEPT !.skipped[r.outcome] = @ + 1]
    ELSE before

\* The loop of main over the first n entries: the rows and the counters after it.
RECURSIVE RunLoop(_, _)
RunLoop(entries, n) ==
    IF n = 0 THEN [rows |-> <<>>, skipped |-> [k \in SkipCounters |-> 0]]
    ELSE CHOOSE after \in { Account(before, r) :
                              before \in { RunLoop(entries, n - 1) },
                              r \in { ProcessEntry(entries[n]) } } : TRUE

(***************************************************************************)
(* Inputs of main: a JSON root that is a list of entries, or no list.      *)
(***************************************************************************)
\* days: a day string, the sentinel the scraper writes for a section without
\* meetings, a string without any day letter.
RawDays == { <<"M", "W">>, <<"T", "B", "A">>, <<"x">> }
\* meetingTime: two ranges the parser accepts, one whose ends it cannot order, and a
\* string the pattern does not match.
RawTimes ==
    { <<"9", ":", "0", "0", "-", "9", ":", "5", "0">>,
      <<"1", "2", ":", "0", "0", "p", "-", "1", "3", ":", "0", "0", "p">>,
      <<"5", ":", "0", "0", "-", "4", ":", "5", "0", "p">>,
      <<"9", "-", "5">> }
\* location: missing or null, a building with a room.
RawLocations == { <<>>, <<"H", "I", "B", " ", "4", "1", "1">> }
\* courseCode with sectionCode, sectionType and sectionNum.
CourseSections ==
    { [course |-> <<>>, code |-> <<"3", "5">>, type |-> <<"L", "e", "c">>, num |-> <<"A">>],
      [course |-> <<"C", "S", " ", "1", "2", "5">>, code |-> <<"3", "5">>,
       type |-> <<"L", "e", "c">>, num |-> <<"A">>],
      [course |-> <<"C", "S", " ", "1", "2", "5">>, code |-> <<"3", "6">>,
       type |-> <<>>, num |-> <<>>] }
DictEntries ==
    { [is_dict |-> TRUE, courseCode |-> cs.course, days |-> d, meetingTime |-> t,
       location |-> l, sectionCode |-> cs.code, sectionType |-> cs.type,
       sectionNum |-> cs.num] :
        cs \in CourseSections, d \in RawDays, t \in RawTimes, l \in RawLocations }
Entries == DictEntries \cup { [is_dict |-> FALSE] }
Roots ==
    { [is_list |-> TRUE, entries |-> es] :
        es \in UNION { [1..n -> Entries] : n \in 0..MaxEntries } }
    \cup { [is_list |-> FALSE, entries |-> <<>>] }

InitMain ==
    /\ pc = "call"
    /\ data \in Roots
    /\ rows = <<>>
    /\ skipped = [k \in SkipCounters |-> 0]
    /\ total_input_entries = 0
    /\ meetings = None /\ buildings = None /\ user_latlon = None
    /\ day_token = None /\ now_min = None /\ cfg = None /\ top_k = None
    /\ include_ongoing = None /\ candidates = None /\ ranked = None
    /\ min_until = None /\ dist_m = None /\ scored = None
    /\ time_raw = None /\ time_parsed = None
    /\ days_in = None /\ days_norm = None /\ days_twice = None /\ occurs = None

\* main on a list root: the loop runs to its end and the rows are written.
Main ==
    /\ pc = "call"
    /\ data.is_list
    /\ total_input_entries' = Len(data.entries)
    /\ \E after \in { RunLoop(data.entries, Len(data.entries)) } :
          /\ rows' = after.rows
          /\ skipped' = after.skipped
    /\ pc' = "done"
    /\ UNCHANGED <<daysVars, data, rankVars, cfg, scoreVars, timeVars>>

\* main on a root that is no list: ValueError before anything is collected.
\* Mutant: the ValueError is raised whatever the root is.
MainRaisesAlways ==
    /\ pc = "call"
    /\ pc' = "raised"
    /\ UNCHANGED <<daysVars, mainVars, rankVars, cfg, scoreVars, timeVars>>

MainRaises ==
    /\ pc = "call"
    /\ ~data.is_list
    /\ pc' = "raised"
    /\ UNCHANGED <<daysVars, mainVars, rankVars, cfg, scoreVars, timeVars>>

NextMain == Main \/ MainRaises

SpecMain == InitMain /\ [][NextMain]_vars

(***************************************************************************)
(* Specification of normalize_days: one call on a raw days string, then    *)
(* either a second call on the result or occurs_today on the result.       *)
(* A raw string is an example or is written with up to MaxDayParts pieces.  *)
(***************************************************************************)
MaxDayParts == 3

\* The day tokens of DAY_MAP's values and of occurs_today's docstring.
WeekTokens ==
    { <<"M">>, <<"T", "u">>, <<"W">>, <<"T", "h">>, <<"F">>, <<"S", "a">>, <<"S", "u">> }

DayPieces ==
    { <<"M">>, <<"W">>, <<"F">>, <<"T">>, <<"R">>, <<"S">>, <<"u">>, <<" ">>,
      <<"T", "u">>, <<"T", "h">>, <<"S", "a">>, <<"S", "u">> }
\* The input examples of the docstring of normalize_days, and "MM W".
DayExamples ==
    { <<"W">>, <<"M", "W", "F">>, <<"T", "u", "T", "h">>, <<"T", "R">>,
      <<"T", "T", "h">>, <<"M", "M", " ", "W">> }
DayInputs ==
    DayExamples
    \cup { Join(ps) : ps \in UNION { [1..n -> DayPieces] : n \in 0..MaxDayParts } }

InitDays ==
    /\ pc = "call"
    /\ days_in \in DayInputs
    /\ days_norm = None /\ days_twice = None /\ occurs = None
    /\ meetings = None /\ buildings = None /\ user_latlon = None
    /\ day_token = None /\ now_min = None /\ cfg = None /\ top_k = None
    /\ include_ongoing = None /\ candidates = None /\ ranked = None
    /\ min_until = None /\ dist_m = None /\ scored = None
    /\ time_raw = None /\ time_parsed = None
    /\ data = None /\ rows = None /\ skipped = None /\ total_input_entries = None

NormalizeDays ==
    /\ pc = "call"
    /\ days_norm' = normalize_days(days_in)
    /\ pc' = "done"
    /\ UNCHANGED <<days_in, days_twice, occurs, rankVars, cfg, scoreVars, timeVars,
                   mainVars>>

\* normalize_days called on a string it returned.
NormalizeAgain ==
    /\ pc = "done"
    /\ days_twice' = normalize_days(days_norm)
    /\ pc' = "again"
    /\ UNCHANGED <<days_in, days_norm, occurs, rankVars, cfg, scoreVars, timeVars,
                   mainVars>>

\* occurs_today asked for each day token, on a Meeting whose days is the string
\* normalize_days returned.
OccursToday ==
    /\ pc = "done"
    /\ occurs' = [tok \in WeekTokens |-> occurs_today([days |-> days_norm], tok)]
    /\ pc' = "asked"
    /\ UNCHANGED <<days_in, days_norm, days_twice, rankVars, cfg, scoreVars, timeVars,
                   mainVars>>

NextDays == NormalizeDays \/ NormalizeAgain \/ OccursToday

SpecDays == InitDays /\ [][NextDays]_vars

(***************************************************************************)
(* Specification of one call of score_candidate, for every RankConfig,     *)
(* also with a time window or a distance bound that is not positive.       *)
(***************************************************************************)
MaxUntil == 70
MinUntils == (-MaxUntil)..MaxUntil
Distances == {0, 300, 600, 1200, 1500}
ScoreConfigs ==
    { [time_window_min |-> tw, max_distance_m |-> md,
       w_time |-> w[1], w_dist |-> w[2]] :
        tw \in {-30, 0, 1, 60}, md \in {-100, 0, 600, 1200}, w \in Weights }

InitScore ==
    /\ pc = "call"
    /\ min_until \in MinUntils
    /\ dist_m \in Distances
    /\ cfg \in ScoreConfigs
    /\ scored = None
    /\ meetings = None /\ buildings = None /\ user_latlon = None
    /\ day_token = None /\ now_min = None /\ top_k = None
    /\ include_ongoing = None /\ candidates = None /\ ranked = None
    /\ time_raw = None /\ time_parsed = None
    /\ data = None /\ rows = None /\ skipped = None /\ total_input_entries = None
    /\ days_in = None /\ days_norm = None /\ days_twice = None /\ occurs = None

ScoreCandidate ==
    /\ pc = "call"
    /\ scored' = score_candidate(min_until, dist_m, cfg)
    /\ pc' = "done"
    /\ UNCHANGED <<daysVars, min_until, dist_m, cfg, rankVars, timeVars, mainVars>>

NextScore == ScoreCandidate

SpecScore == InitScore /\ [][NextScore]_vars

(***************************************************************************)
(* Properties of rank_meetings, checked under Spec.                        *)
(***************************************************************************)
Done == pc = "done"
\* The Meeting a result refers to.
MeetingOf(r) == meetings[r.meeting]
\* Distance from the user to the building of the meeting at input position i.
DistanceTo(i) ==
    Abs(buildings[meetings[i].building_code].lat - user_latlon[1])

\* C1: every returned result refers to a meeting that passes the day filter, the
\* building lookup, the time window (starting within time_window_min, or ongoing and
\* ongoing meetings allowed) and the distance bound.
C1_ResultsPassFilters ==
    Done =>
        \A k \in 1..Len(ranked) :
            LET m == MeetingOf(ranked[k])
                delta == m.start_min - now_min
            IN /\ Contains(day_token, m.days)
               /\ m.building_code \in DOMAIN buildings
               /\ \/ (0 <= delta /\ delta <= cfg.time_window_min)
                  \/ (delta < 0 /\ include_ongoing /\ now_min < m.end_min)
               /\ DistanceTo(ranked[k].meeting) <= cfg.max_distance_m

\* A call that returned a result and filtered another meeting out (not by truncation).
C1_Witness ==
    /\ Done
    /\ top_k >= Len(meetings)
    /\ Len(ranked) >= 1
    /\ Len(ranked) < Len(meetings)

\* C2, as stated: whatever integer top_k is passed, the result has at most top_k entries.
C2_LengthAtMostTopK == Done => Len(ranked) <= top_k

\* C2, amended: for top_k >= 0 the result has at most top_k entries; for top_k < 0 the
\* slice drops the last -top_k candidates, leaving max(0, n + top_k) entries.
C2_LengthAtMostNonNegTopK ==
    Done =>
        /\ (top_k >= 0) => Len(ranked) <= top_k
        /\ (top_k < 0) =>
              Len(ranked) = (IF Len(candidates) + top_k > 0
                             THEN Len(candidates) + top_k ELSE 0)

\* More meetings qualify than top_k allows, and the result is cut to top_k.
C2_Witness ==
    /\ Done
    /\ top_k >= 1
    /\ Len(candidates) > top_k
    /\ Len(ranked) = top_k

\* C3: the result is a stable descending sort: of two results the earlier one has the
\* greater score, or the same score and the earlier position in the input list.
C3_StableDescending ==
    Done =>
        \A i, j \in 1..Len(ranked) :
            i < j =>
                \/ RLt(ranked[j].score, ranked[i].score)
                \/ /\ REq(ranked[i].score, ranked[j].score)
                   /\ ranked[i].meeting < ranked[j].meeting

\* Two different meetings tie and are returned in their input order.
C3_Witness ==
    /\ Done
    /\ Len(ranked) = 2
    /\ REq(ranked[1].score, ranked[2].score)
    /\ MeetingOf(ranked[1]) # MeetingOf(ranked[2])

\* C4: a meeting passing the day, building and distance filters is a candidate iff
\* (delta < 0, ongoing meetings are included and now_min < end_min) or
\* (0 <= delta <= time_window_min).  Hence without include_ongoing no candidate has a
\* negative minutes_until_start, and no candidate has ended.
C4_TimeWindowRule ==
    Done =>
        /\ \A i \in 1..Len(meetings) :
              LET m == meetings[i]
                  delta == m.start_min - now_min
              IN (/\ Contains(day_token, m.days)
                  /\ m.building_code \in DOMAIN buildings
                  /\ DistanceTo(i) <= cfg.max_distance_m)
                 => ((\E k \in 1..Len(candidates) : candidates[k].meeting = i)
                     <=> \/ (delta < 0 /\ include_ongoing /\ now_min < m.end_min)
                         \/ (delta >= 0 /\ delta <= cfg.time_window_min))
        /\ \A k \in 1..Len(ranked) :
              /\ (~include_ongoing) => ranked[k].minutes_until_start >= 0
              /\ MeetingOf(ranked[k]).end_min > now_min

\* An ongoing meeting that started longer ago than time_window_min is returned.
C4_Witness ==
    /\ Done
    /\ \E k \in 1..Len(ranked) :
          /\ ranked[k].minutes_until_start < 0
          /\ -ranked[k].minutes_until_start > cfg.time_window_min

\* The inputs of the end-to-end scenario (top_k and include_ongoing at values that
\* behave as their defaults 10 and True do for one meeting).
Scenario ==
    /\ meetings = << [days |-> <<"W">>, start_min |-> 780, end_min |-> 830,
                      building_code |-> "HIB"] >>
    /\ buildings["HIB"].lat = user_latlon[1]
    /\ buildings["HIB"].lon = user_latlon[2]
    /\ day_token = <<"W">>
    /\ now_min = 790
    /\ cfg = [time_window_min |-> 60, max_distance_m |-> 1200,
              w_time |-> Rat(6, 10), w_dist |-> Rat(4, 10)]
    /\ top_k >= 1
    /\ include_ongoing

\* C5, as stated: the scenario yields one result with minutes_until_start = 10,
\* time_score = 1 - 10/60, dist_score = 1 and score = 0.6 * 5/6 + 0.4 = 0.9.
C5_ScenarioAsStated ==
    (Done /\ Scenario) =>
        /\ Len(ranked) = 1
        /\ ranked[1].distance_m = 0
        /\ ranked[1].minutes_until_start = 10
        /\ REq(ranked[1].time_score, Rat(5, 6))
        /\ REq(ranked[1].dist_score, One)
        /\ REq(ranked[1].score, Rat(9, 10))

\* C5, amended: now_min = 790 is 10 minutes after the start 780, so the scenario
\* yields one result with minutes_until_start = -10, time_score clamped to 1,
\* dist_score = 1 and score = 0.6 + 0.4 = 1.
C5_ScenarioOngoing ==
    (Done /\ Scenario) =>
        /\ Len(ranked) = 1
        /\ ranked[1].distance_m = 0
        /\ ranked[1].minutes_until_start = -10
        /\ REq(ranked[1].time_score, One)
        /\ REq(ranked[1].dist_score, One)
        /\ REq(ranked[1].score, One)

\* The scenario has been ranked.
C5_Witness == Done /\ Scenario /\ Len(ranked) = 1

\* C16: every returned result has time_score and dist_score in [0,1] and a score that
\* is exactly w_time * time_score + w_dist * dist_score of that result, not clamped.
C16_ScoreIsWeightedSum ==
    Done =>
        \A k \in 1..Len(ranked) :
            LET r == ranked[k] IN
            /\ RLeq(Zero, r.time_score) /\ RLeq(r.time_score, One)
            /\ RLeq(Zero, r.dist_score) /\ RLeq(r.dist_score, One)
            /\ REq(r.score, RAdd(RMul(cfg.w_time, r.time_score),
                                 RMul(cfg.w_dist, r.dist_score)))

\* A result whose score is greater than 1, under weights that do not sum to 1.
C16_Witness ==
    /\ Done
    /\ \E k \in 1..Len(ranked) : RLt(One, ranked[k].score)

\* The input positions of the meetings that pass the four filters: the day, the
\* building lookup, the time window and the distance bound.
QualifyingPositions ==
    { i \in 1..Len(meetings) :
        LET m == meetings[i]
            delta == m.start_min - now_min
        IN /\ Contains(day_token, m.days)
           /\ m.building_code \in DOMAIN buildings
           /\ \/ (0 <= delta /\ delta <= cfg.time_window_min)
              \/ (delta < 0 /\ include_ongoing /\ now_min < m.end_min)
           /\ DistanceTo(i) <= cfg.max_distance_m }

\* The positions of the meetings the results refer to.
ReturnedPositions == { ranked[k].meeting : k \in 1..Len(ranked) }

\* The score of the meeting at input position i.
ScoreOf(i) ==
    RAdd(RMul(cfg.w_time, TimeScore(meetings[i].start_min - now_min, cfg)),
         RMul(cfg.w_dist, DistScore(DistanceTo(i), cfg)))

\* C18: when top_k is at least the number of meetings that pass the four filters, each
\* of them is returned exactly once per occurrence in the input; when top_k is smaller
\* and not negative, exactly top_k results are returned and no omitted qualifying
\* meeting has a score greater than that of a returned one.
C18_NothingDropped ==
    Done =>
        /\ top_k >= Cardinality(QualifyingPositions) =>
              /\ ReturnedPositions = QualifyingPositions
              /\ Len(ranked) = Cardinality(QualifyingPositions)
        /\ (0 <= top_k /\ top_k < Cardinality(QualifyingPositions)) =>
              /\ Len(ranked) = top_k
              /\ Cardinality(ReturnedPositions) = top_k
              /\ ReturnedPositions \subseteq QualifyingPositions
              /\ \A i \in QualifyingPositions \ ReturnedPositions :
                    \A k \in 1..Len(ranked) : RLeq(ScoreOf(i), ranked[k].score)

\* A call that returned the better of two qualifying meetings of different score.
C18_Witness ==
    /\ Done
    /\ top_k = 1
    /\ Cardinality(QualifyingPositions) = 2
    /\ \E i \in QualifyingPositions \ ReturnedPositions :
          RLt(ScoreOf(i), ranked[1].score)

(***************************************************************************)
(* Properties of parse_meeting_time, checked under SpecTime.               *)
(***************************************************************************)
\* The groups of the pattern match on the raw string.
Groups == MatchRaw(Strip(time_raw))
Parsable == time_raw # <<>> /\ Upper(Strip(time_raw)) # <<"T", "B", "A">> /\ Groups.matched
StartIsMarked == Groups.start_suffix # <<>>
EndIsMarked == Groups.end_suffix # <<>>
\* The suffix as a meridiem.
Meridiem(suf) == IF LowerChar(suf[1]) = "a" THEN AM ELSE PM

\* C6: whenever parse_meeting_time returns a pair, end_min > start_min.
C6_EndAfterStart ==
    (Done /\ time_parsed # NoValue) => time_parsed[2] > time_parsed[1]

\* A pair returned by the four-combination fallback of the unmarked case.
C6_Witness ==
    /\ Done
    /\ Parsable /\ ~StartIsMarked /\ ~EndIsMarked
    /\ time_to_minutes(Groups.end, default_ampm_for_hour(HourOf(Groups.end)))
         <= time_to_minutes(Groups.start, default_ampm_for_hour(HourOf(Groups.start)))
    /\ time_parsed # NoValue

\* The readings of an unmarked clock time that are closest to the marked end.
Closest(hhmm, marked_min) ==
    LET am == time_to_minutes(hhmm, AM)
        pm == time_to_minutes(hhmm, PM)
        dist(x) == IF x < marked_min THEN marked_min - x ELSE x - marked_min
    IN { x \in {am, pm} : \A y \in {am, pm} : dist(x) <= dist(y) }
\* The other reading.
Farthest(hhmm, marked_min) ==
    { time_to_minutes(hhmm, AM), time_to_minutes(hhmm, PM) } \ Closest(hhmm, marked_min)

GuessFor(h) ==
    IF 8 <= h /\ h <= 11 THEN {AM}
    ELSE IF h = 12 \/ (1 <= h /\ h <= 7) THEN {PM}
    ELSE {AM, PM}
\* The four combinations in enumeration order, as pairs of minutes.
Combination(i) ==
    << time_to_minutes(Groups.start, IF i <= 2 THEN AM ELSE PM),
       time_to_minutes(Groups.end, IF i % 2 = 1 THEN AM ELSE PM) >>
Duration(i) == Combination(i)[2] - Combination(i)[1]
Qualifying == { i \in 1..4 : Duration(i) > 0 /\ Duration(i) <= 720 }
\* The qualifying combination of smallest duration, the first of them on a tie.
SmallestQualifying ==
    IF Qualifying = {} THEN NoValue
    ELSE Combination(CHOOSE i \in Qualifying :
            \A j \in Qualifying :
                Duration(i) < Duration(j) \/ (Duration(i) = Duration(j) /\ i <= j))

\* C9: with neither end marked, the pair read by the default guess is returned if
\* end > start; otherwise the qualifying combination (end > start, duration <= 720)
\* of smallest duration, the first in the order (AM,AM), (AM,PM), (PM,AM), (PM,PM) on
\* a tie, or None if none qualifies.  "9:00-9:50" yields (540, 590).
C9_NeitherMarked ==
    Done =>
        /\ (Parsable /\ ~StartIsMarked /\ ~EndIsMarked) =>
              \E sa \in GuessFor(HourOf(Groups.start)), ea \in GuessFor(HourOf(Groups.end)) :
                  LET b == time_to_minutes(Groups.start, sa)
                      e == time_to_minutes(Groups.end, ea)
                  IN time_parsed = (IF e > b THEN <<b, e>> ELSE SmallestQualifying)
        /\ (time_raw = <<"9", ":", "0", "0", "-", "9", ":", "5", "0">>) =>
              time_parsed = <<540, 590>>

\* The default guess gives no valid order, and two combinations of the same smallest
\* duration qualify: the earlier one is returned.
C9_Witness ==
    /\ Done
    /\ Parsable /\ ~StartIsMarked /\ ~EndIsMarked
    /\ \E i, j \in Qualifying :
          /\ i < j
          /\ Duration(i) = Duration(j)
          /\ time_parsed = Combination(i)
    /\ time_to_minutes(Groups.end, default_ampm_for_hour(HourOf(Groups.end)))
         <= time_to_minutes(Groups.start, default_ampm_for_hour(HourOf(Groups.start)))

(***************************************************************************)
(* Properties of the normalization pass, checked under SpecMain.           *)
(***************************************************************************)
\* C7: every row the normalization pass produces has start_min and end_min that are
\* minutes since midnight within one day: 0 <= start_min < end_min <= 1439.
C7_WithinOneDay ==
    Done =>
        \A k \in 1..Len(rows) :
            /\ 0 <= rows[k].start_min
            /\ rows[k].start_min < rows[k].end_min
            /\ rows[k].end_min <= 1439

\* The sum of the five skip counters.
SkippedTotal ==
    skipped["missing_course"] + skipped["tba_or_online"] + skipped["missing_days"]
    + skipped["bad_time"] + skipped["bad_location"]

\* C13: after the pass every entry of the list has produced one row or incremented one
\* of the five skip counters: rows written + sum of the skip counters = the reported
\* total number of input entries.
C13_EveryEntryCounted ==
    Done => Len(rows) + SkippedTotal = total_input_entries

\* C14: the meeting_id values of the rows written by one pass are pairwise distinct.
C14_MeetingIdsDistinct ==
    Done =>
        \A i, j \in 1..Len(rows) :
            i # j => rows[i].meeting_id # rows[j].meeting_id

\* The rows the pass produces for the entries from position k on, each entry taken as
\* a list of its own.
RECURSIVE RowsOneByOne(_, _)
RowsOneByOne(entries, k) ==
    IF k > Len(entries) THEN <<>>
    ELSE RunLoop(<< entries[k] >>, 1).rows \o RowsOneByOne(entries, k + 1)

\* C15: the pass raises if and only if the root is not a list, and then before any row
\* is produced or anything is counted; on a list root the step of the pass is its
\* completion, whatever the entries are, and an anomaly of one entry only skips that
\* entry: the rows are the rows each entry gives on its own.
C15_RaisesOnlyOnNonList ==
    /\ [](pc = "raised" =>
             /\ ~data.is_list
             /\ rows = <<>> /\ SkippedTotal = 0 /\ total_input_entries = 0)
    /\ [](Done =>
             /\ data.is_list
             /\ rows = RowsOneByOne(data.entries, 1))
    /\ [][pc = "call" =>
             /\ data.is_list => pc' = "done"
             /\ ~data.is_list => pc' = "raised" /\ UNCHANGED mainVars]_vars

\* A completed pass over a list with an entry that is skipped in front of an entry
\* that gives a row.
C15_Witness ==
    /\ Done
    /\ Len(data.entries) = 2
    /\ SkippedTotal = 1
    /\ rows = RunLoop(<< data.entries[2] >>, 1).rows
    /\ Len(rows) = 1

(***************************************************************************)
(* Properties of score_candidate, checked under SpecScore.                 *)
(***************************************************************************)
\* C10: for min_until in [0, time_window_min] the time score is in [0,1] and is not
\* greater than the time score of any smaller min_until of that interval; for
\* min_until < 0 it is exactly 1, whatever the time window.
C10_TimeScore ==
    Done =>
        /\ (0 <= min_until /\ min_until <= cfg.time_window_min) =>
              /\ RLeq(Zero, scored.time_score)
              /\ RLeq(scored.time_score, One)
              /\ \A earlier \in 0..min_until :
                    RLeq(scored.time_score, TimeScore(earlier, cfg))
        /\ (min_until < 0) => scored.time_score = One

\* An ongoing candidate scored under a time window that is not positive.
C10_Witness ==
    /\ Done
    /\ min_until < 0
    /\ cfg.time_window_min <= 0
    /\ scored.time_score = One


\* C11, as stated: for every RankConfig and every distance d >= 0, dist_score is not
\* greater than the dist_score of any smaller distance, is 1 at d = 0 and is 0 for
\* every d >= max_distance_m.
C11_DistScoreAsStated ==
    Done =>
        /\ \A nearer \in { x \in Distances : x <= dist_m } :
              RLeq(scored.dist_score, DistScore(nearer, cfg))
        /\ (dist_m = 0) => scored.dist_score = One
        /\ (dist_m >= cfg.max_distance_m) => scored.dist_score = Zero

\* C11, amended: dist_score is not greater than the dist_score of any smaller distance,
\* is 1 at d = 0 whatever max_distance_m is, and is 0 for every d > 0 with
\* d >= max_distance_m.
C11_DistScore ==
    Done =>
        /\ \A nearer \in { x \in Distances : x <= dist_m } :
              RLeq(scored.dist_score, DistScore(nearer, cfg))
        /\ (dist_m = 0) => scored.dist_score = One
        /\ (dist_m > 0 /\ dist_m >= cfg.max_distance_m) => scored.dist_score = Zero

\* A candidate at distance 0 scored under a distance bound that is not positive.
C11_Witness ==
    /\ Done
    /\ dist_m = 0
    /\ cfg.max_distance_m <= 0
    /\ scored.dist_score = One

(***************************************************************************)
(* Properties of normalize_days and occurs_today, checked under SpecDays.  *)
(***************************************************************************)
Normalized == pc \in {"done", "again", "asked"}

\* A two-character day token starts at position i of s.
TwoAt(s, i) ==
    << At(s, i), At(s, i + 1) >>
        \in { <<"T", "u">>, <<"T", "h">>, <<"S", "a">>, <<"S", "u">> }

\* The day token a scan finds when it reads position i of s, <<>> for none.
FoundAt(s, i) ==
    IF TwoAt(s, i) THEN << s[i], s[i + 1] >>
    ELSE IF s[i] \in {"M", "W", "F"} THEN << s[i] >>
    ELSE IF s[i] = "T" THEN <<"T", "u">>
    ELSE IF s[i] = "R" THEN <<"T", "h">>
    ELSE <<>>

\* The positions a left-to-right scan of s reads: the first one, the one behind a
\* position read without a two-character match, and the one two behind a position
\* read with such a match.
ScanReads(s) ==
    LET reads[i \in 1..Len(s)] ==
            IF i = 1 THEN TRUE
            ELSE \/ reads[i - 1] /\ ~TwoAt(s, i - 1)
                 \/ i > 2 /\ reads[i - 2] /\ TwoAt(s, i - 2)
    IN { i \in 1..Len(s) : reads[i] }

\* The positions at which the scan finds a token it has not found before.
FirstSeen(s) ==
    { i \in ScanReads(s) :
        /\ FoundAt(s, i) # <<>>
        /\ \A j \in ScanReads(s) : j < i => FoundAt(s, j) # FoundAt(s, i) }

\* The tokens found at the positions of keep, from position i on, concatenated.
RECURSIVE InOrder(_, _, _)
InOrder(s, keep, i) ==
    IF i > Len(s) THEN <<>>
    ELSE (IF i \in keep THEN FoundAt(s, i) ELSE <<>>) \o InOrder(s, keep, i + 1)

\* C12: normalize_days returns the concatenation, without separator, of the distinct
\* day tokens a left-to-right scan finds, each at the place of its first occurrence;
\* the tokens are from {M, Tu, W, Th, F, Sa, Su}; "TR" and "TTh" give "TuTh",
\* "MM W" gives "MW", "MWF" gives "MWF", and an empty or blank input gives "".
C12_FirstSeenTokens ==
    Normalized =>
        /\ days_norm = InOrder(days_in, FirstSeen(days_in), 1)
        /\ \A i \in FirstSeen(days_in) : FoundAt(days_in, i) \in WeekTokens
        /\ days_in \in { <<"T", "R">>, <<"T", "T", "h">> }
              => days_norm = <<"T", "u", "T", "h">>
        /\ days_in = <<"M", "M", " ", "W">> => days_norm = <<"M", "W">>
        /\ days_in = <<"M", "W", "F">> => days_norm = <<"M", "W", "F">>
        /\ (\A k \in 1..Len(days_in) : IsSpace(days_in[k])) => days_norm = <<>>

\* A call whose scan found a two-character token and found some token a second time.
C12_Witness ==
    /\ pc = "done"
    /\ \E i \in ScanReads(days_in) : TwoAt(days_in, i)
    /\ \E i \in ScanReads(days_in) : FoundAt(days_in, i) # <<>> /\ i \notin FirstSeen(days_in)
    /\ Len(days_norm) >= 3

\* The day tokens that make up the string normalize_days returned for days_in.
TokensOf(s) == { FoundAt(s, i) : i \in FirstSeen(s) }

\* C17: on every string normalize_days returns and for every day token of
\* {M, Tu, W, Th, F, Sa, Su}, the substring test of occurs_today is true if and only
\* if the day token is one of the tokens that make up the string.
C17_SubstringIsMembership ==
    pc = "asked" =>
        \A tok \in WeekTokens : occurs[tok] <=> tok \in TokensOf(days_in)

\* A canonical string with Th and Sa but without Tu and Su, which share their first
\* letters with them.
C17_Witness ==
    /\ pc = "asked"
    /\ occurs[<<"T", "h">>] /\ ~occurs[<<"T", "u">>]
    /\ occurs[<<"S", "a">>] /\ ~occurs[<<"S", "u">>]

\* C19: normalize_days is idempotent: called on a string it returned, it returns that
\* string.
C19_Idempotent == pc = "again" => days_twice = days_norm

\* A second call on a result of several tokens that differs from the raw string.
C19_Witness ==
    /\ pc = "again"
    /\ days_norm # days_in
    /\ Len(days_norm) >= 3
    /\ days_twice = days_norm
====
